---- MODULE Spec2Model ----
(***************************************************************************)
(* A model of engine/sync_manager.go: the currency pair sync manager, its  *)
(* registry of sync agents, the initial-sync wait group, the lifecycle     *)
(* calls Start / Stop / Update / WaitForInitialSync, the monitor goroutine *)
(* of Start and the worker goroutines.                                     *)
(*                                                                         *)
(* Goroutines are processes with a program counter.  A step of a process   *)
(* is one access to shared memory (an atomic, a wait group, or one         *)
(* critical section of m.mux) together with the local code around it.      *)
(* Time is an integer clock; the zero time.Time is 0 and the clock starts  *)
(* at 1.  There is one exchange with one asset type.                       *)
(***************************************************************************)
EXTENDS Integers, Sequences, FiniteSets, TLC

\* ---------------------------------------------------------------- constants

SyncItemTicker == 0
SyncItemOrderbook == 1
SyncItemTrade == 2

\* Bounds of the model.
MaxTime == 3          \* the clock runs from 1 to MaxTime
MaxErrors == 1        \* NumErrors is counted up to MaxErrors
MaxStarts == 2        \* Start wins its compare-and-swap at most MaxStarts times
TimeoutRESTTicks == 1       \* config.TimeoutREST, in clock ticks
TimeoutWebsocketTicks == 1  \* config.TimeoutWebsocket, in clock ticks

ExchangeName == "X"
AssetSpot == "spot"
\* The pairs the exchange can report, in the order GetEnabledPairs lists them.
PairOrder == <<"BTC-USD", "ETH-USD">>
\* A pair no exchange ever reports.
UnknownPair == "LTC-USD"

StreamKinds == {SyncItemTicker, SyncItemOrderbook, SyncItemTrade}

\* ------------------------------------------------------------------- errors
\* An error value is its sentinel and whether fmt.Errorf("%w") wrapped it: a
\* wrapped error is not == to its sentinel, errors.Is unwraps it.

Err(base) == [base |-> base, wrapped |-> FALSE]
Wrap(e) == [e EXCEPT !.wrapped = TRUE]
Is(e, target) == e.base = target.base
Nil == Err("nil")
ErrNilSubsystem == Err("ErrNilSubsystem")
ErrSubSystemAlreadyStarted == Err("ErrSubSystemAlreadyStarted")
ErrSubSystemNotStarted == Err("ErrSubSystemNotStarted")
errNoSyncItemsEnabled == Err("errNoSyncItemsEnabled")
errUnknownSyncItem == Err("errUnknownSyncItem")
errSyncPairNotFound == Err("errSyncPairNotFound")
errCouldNotSyncNewData == Err("errCouldNotSyncNewData")
\* The error of an external collaborator (exchange manager, exchange client).
errExternal == Err("errExternal")

\* ---------------------------------------------------------------- variables

VARIABLES
    mgr,                \* "nil" before setupSyncManager succeeded, then "ok"
    setupErr,           \* what the last setupSyncManager call returned
    config,             \* m.config
    started,            \* m.started
    initSyncStarted,    \* m.initSyncStarted
    initSyncCompleted,  \* m.initSyncCompleted
    initSyncWG,         \* counter of m.initSyncWG
    inService,          \* counter of m.inService
    panicked,           \* a goroutine panicked: the process is gone
    nStarts,            \* number of Start calls that won the compare-and-swap
    arrays,             \* the backing arrays ever allocated for m.currencyPairs
    cp,                 \* the slice header m.currencyPairs: array, len, cap
    createdCounter,
    removedCounter,
    tickerBatchLastRequested,  \* m.tickerBatchLastRequested[exchange], or absent
    mux,                \* 0, or the worker that holds m.mux across a step
    now,                \* the clock
    enabledPairs,       \* the pairs the exchange reports as enabled
    exch,               \* capabilities of the exchange
    threads,            \* the callers of the public operations
    workers,            \* the worker goroutines ever spawned
    ret,                \* the call that returned in the last step, or NoRet
    mon                 \* the monitor goroutines of Start, counted by position

lifeVars == <<mgr, setupErr, config, started, initSyncStarted, initSyncCompleted,
              initSyncWG, inService, panicked, nStarts>>
regVars == <<arrays, cp, createdCounter, removedCounter, tickerBatchLastRequested, mux>>
envVars == <<now, enabledPairs, exch>>
procVars == <<threads, workers, mon>>
vars == <<lifeVars, regVars, envVars, procVars, ret>>

Threads == {1, 2}

\* No call returned in the last step.
NoRet == [op |-> "none"]

\* ------------------------------------------------------------ registry data

ZeroSyncBase ==
    [IsUsingREST |-> FALSE, IsUsingWebsocket |-> FALSE, IsProcessing |-> FALSE,
     HaveData |-> FALSE, LastUpdated |-> 0, NumErrors |-> 0]

StreamField(s) ==
    CASE s = SyncItemTicker -> "Ticker"
      [] s = SyncItemOrderbook -> "Orderbook"
      [] s = SyncItemTrade -> "Trade"

\* The Synchronize* flag of a stream kind.
StreamEnabled(s) ==
    CASE s = SyncItemTicker -> config.SynchronizeTicker
      [] s = SyncItemOrderbook -> config.SynchronizeOrderbook
      [] s = SyncItemTrade -> config.SynchronizeTrades

\* The units of m.currencyPairs.
Units == IF cp.arr = 0 THEN <<>> ELSE SubSeq(arrays[cp.arr], 1, cp.len)

KeyOf(u) == <<u.Exchange, u.Pair, u.AssetType>>
Key(p) == <<ExchangeName, p, AssetSpot>>

\* The index of the first unit with the key, or 0: the loop of get, exists,
\* isProcessing, setProcessing and Update.
Find(k) ==
    LET hits == {x \in 1..Len(Units) : KeyOf(Units[x]) = k}
    IN  IF hits = {} THEN 0 ELSE CHOOSE x \in hits : \A y \in hits : x <= y

exists(k) == Find(k) # 0

\* get: a pointer into the backing array, or the wrapped errSyncPairNotFound.
getErr(k) == IF Find(k) # 0 THEN Nil ELSE Wrap(errSyncPairNotFound)
getPtr(k) == [arr |-> cp.arr, idx |-> Find(k)]
Deref(c) == arrays[c.arr][c.idx]

isProcessing(k, s) ==
    IF Find(k) # 0 /\ s \in StreamKinds
    THEN Units[Find(k)][StreamField(s)].IsProcessing
    ELSE FALSE

\* setProcessing writes the flag of every unit with the key.
setProcessingIn(arrs, k, s, processing) ==
    IF cp.arr = 0 THEN arrs
    ELSE [arrs EXCEPT ![cp.arr] =
            [x \in 1..Len(@) |->
                IF x <= cp.len /\ KeyOf(@[x]) = k
                THEN [@[x] EXCEPT ![StreamField(s)].IsProcessing = processing]
                ELSE @[x]]]

\* append(m.currencyPairs, u): in place while the capacity lasts, else into a
\* new array of twice the capacity; the old array stays as it was.
AppendArrays(u) ==
    IF cp.len < cp.cap
    THEN [arrays EXCEPT ![cp.arr] = Append(SubSeq(@, 1, cp.len), u)]
    ELSE Append(arrays, Append(Units, u))
AppendHeader ==
    IF cp.len < cp.cap
    THEN [cp EXCEPT !.len = @ + 1]
    ELSE [arr |-> Len(arrays) + 1, len |-> cp.len + 1,
          cap |-> IF cp.cap = 0 THEN 1 ELSE 2 * cp.cap]

\* The number of streams add counts: each enabled stream, while the initial
\* sync has not completed.
EnabledStreams == Cardinality({s \in StreamKinds : StreamEnabled(s)})
AddCount == IF initSyncCompleted # 1 THEN EnabledStreams ELSE 0

\* The unit Start and the worker build for a pair.
NewUnit(p, usingREST, usingWebsocket) ==
    LET sBase == [ZeroSyncBase EXCEPT
                    !.IsUsingREST = usingREST \/ ~exch.wsAssetSupported,
                    !.IsUsingWebsocket = usingWebsocket /\ exch.wsAssetSupported]
    IN  [Exchange |-> ExchangeName, AssetType |-> AssetSpot, Pair |-> p,
         Created |-> 0,
         Ticker |-> IF config.SynchronizeTicker THEN sBase ELSE ZeroSyncBase,
         Orderbook |-> IF config.SynchronizeOrderbook THEN sBase ELSE ZeroSyncBase,
         Trade |-> IF config.SynchronizeTrades THEN sBase ELSE ZeroSyncBase]

\* add: counts the enabled streams, stamps Created and appends a copy.
add(u) ==
    /\ initSyncWG' = initSyncWG + AddCount
    /\ createdCounter' = createdCounter + AddCount
    /\ arrays' = AppendArrays([u EXCEPT !.Created = now])
    /\ cp' = AppendHeader

\* ------------------------------------------------------------------- Update

\* An Update that does not return early while the initial sync has not started.
UpdateLocksUnarmed(s) ==
    /\ mgr = "ok" /\ started = 1
    /\ s \in StreamKinds /\ StreamEnabled(s)

\* Update reaches its critical section: the manager is started, the initial
\* sync has started, the stream kind is known and its Synchronize* flag is set.
UpdateLocks(s) ==
    /\ mgr = "ok" /\ started = 1 /\ initSyncStarted = 1
    /\ s \in StreamKinds /\ StreamEnabled(s)

\* An Update whose switch has no default case.
UpdateErrNoDefault(k, s) ==
    IF mgr = "nil" THEN Wrap(ErrNilSubsystem)
    ELSE IF started = 0 THEN Wrap(ErrSubSystemNotStarted)
    ELSE IF initSyncStarted # 1 THEN Nil
    ELSE IF s \notin StreamKinds THEN Nil
    ELSE IF ~StreamEnabled(s) THEN Nil
    ELSE IF Find(k) = 0 THEN Wrap(errCouldNotSyncNewData)
    ELSE Nil

\* What Update returns.
UpdateErr(k, s) ==
    IF mgr = "nil" THEN Wrap(ErrNilSubsystem)
    ELSE IF started = 0 THEN Wrap(ErrSubSystemNotStarted)
    ELSE IF initSyncStarted # 1 THEN Nil
    ELSE IF s \notin StreamKinds THEN Wrap(errUnknownSyncItem)
    ELSE IF ~StreamEnabled(s) THEN Nil
    ELSE IF Find(k) = 0 THEN Wrap(errCouldNotSyncNewData)
    ELSE Nil

\* An Update that leaves IsProcessing as it finds it.
UpdatedBaseKeepsProcessing(b, err) ==
    [b EXCEPT !.LastUpdated = now,
              !.NumErrors = IF err # Nil THEN @ + 1 ELSE @,
              !.HaveData = TRUE]

\* The stream state Update leaves for the first unit with the key.
UpdatedBase(b, err) ==
    [b EXCEPT !.LastUpdated = now,
              !.NumErrors = IF err # Nil THEN @ + 1 ELSE @,
              !.HaveData = TRUE,
              !.IsProcessing = FALSE]

\* An Update that counts every datum of an initial sync that has not completed.
UpdateDoneEveryDatum(k, s) ==
    IF initSyncCompleted # 1 THEN 1 ELSE 0

\* 1 when this Update is the stream's first datum of an initial sync that has
\* not completed: removedCounter++ and m.initSyncWG.Done().
UpdateDone(k, s) ==
    IF initSyncCompleted # 1 /\ ~Units[Find(k)][StreamField(s)].HaveData THEN 1 ELSE 0

\* An Update that records nothing when the fetch has failed.
UpdateDropsFailed(k, s, err) ==
    IF UpdateLocks(s) /\ Find(k) # 0 /\ err = Nil
       THEN /\ arrays' = [arrays EXCEPT ![cp.arr][Find(k)][StreamField(s)] =
                              UpdatedBase(@, err)]
            /\ removedCounter' = removedCounter + UpdateDone(k, s)
            /\ initSyncWG' = initSyncWG - UpdateDone(k, s)
       ELSE UNCHANGED <<arrays, removedCounter, initSyncWG>>

\* Update(exchangeName, p, a, syncType, err) on the registry and the latch.
Update(k, s, err) ==
    IF UpdateLocks(s) /\ Find(k) # 0
       THEN /\ arrays' = [arrays EXCEPT ![cp.arr][Find(k)][StreamField(s)] =
                              UpdatedBase(@, err)]
            /\ removedCounter' = removedCounter + UpdateDone(k, s)
            /\ initSyncWG' = initSyncWG - UpdateDone(k, s)
       ELSE UNCHANGED <<arrays, removedCounter, initSyncWG>>

\* -------------------------------------------------------------------- setup

\* A setupSyncManager that accepts a configuration with no stream enabled.
SetupAnyFlags(c) ==
    /\ ~panicked /\ mgr = "nil"
    /\ setupErr' = Nil
    /\ mgr' = "ok"
    /\ config' = c
    /\ inService' = inService + 1
    /\ ret' = NoRet
    /\ UNCHANGED <<started, initSyncStarted, initSyncCompleted, initSyncWG,
                   panicked, nStarts, regVars, envVars, procVars>>

\* setupSyncManager(c, ...): with non-nil collaborators, a fiat display
\* currency, a pair format, and NumWorkers and timeouts above zero.
Setup(c) ==
    /\ ~panicked /\ mgr = "nil"
    /\ IF ~c.SynchronizeOrderbook /\ ~c.SynchronizeTicker /\ ~c.SynchronizeTrades
       THEN /\ setupErr' = errNoSyncItemsEnabled
            /\ UNCHANGED <<mgr, config, inService>>
       ELSE /\ setupErr' = Nil
            /\ mgr' = "ok"
            /\ config' = c
            /\ inService' = inService + 1
    /\ ret' = NoRet
    /\ UNCHANGED <<started, initSyncStarted, initSyncCompleted, initSyncWG,
                   panicked, nStarts, regVars, envVars, procVars>>

\* ------------------------------------------------------------------ threads

Idle(t) == threads[t].pc = "idle"
Return(t, name, e) ==
    /\ threads' = [threads EXCEPT ![t] = [pc |-> "idle", todo |-> <<>>]]
    /\ ret' = [op |-> name, t |-> t, args |-> <<>>, res |-> e]
Goto(t, pc, todo) ==
    /\ threads' = [threads EXCEPT ![t] = [pc |-> pc, todo |-> todo]]
    /\ ret' = NoRet

EnabledSeq == SelectSeq(PairOrder, LAMBDA p : p \in enabledPairs)

\* The transports Start gives the units of the exchange.
StartUsingWebsocket ==
    config.websocketRoutineManagerEnabled /\ exch.supportsWebsocket /\ exch.websocketEnabled
StartUsingREST == ~StartUsingWebsocket /\ exch.supportsREST

NewWorker == [c |-> [arr |-> 0, idx |-> 0], usingWebsocket |-> FALSE,
              pc |-> "top", todo |-> <<>>, switchedToRest |-> FALSE]

\* A Start that stores 1 to m.started without comparing.
StartCallStore(t) ==
    /\ ~panicked /\ Idle(t)
    /\ IF mgr = "nil"
       THEN /\ Return(t, "Start", Wrap(ErrNilSubsystem))
            /\ UNCHANGED <<started, nStarts>>
       ELSE /\ nStarts < MaxStarts
            /\ started' = 1
            /\ nStarts' = nStarts + 1
            /\ Goto(t, "start_init", <<>>)
    /\ UNCHANGED <<mgr, setupErr, config, initSyncStarted, initSyncCompleted,
                   initSyncWG, inService, panicked, regVars, envVars, workers, mon>>

\* Start, to its compare-and-swap of m.started.
StartCall(t) ==
    /\ ~panicked /\ Idle(t)
    /\ IF mgr = "nil"
       THEN /\ Return(t, "Start", Wrap(ErrNilSubsystem))
            /\ UNCHANGED <<started, nStarts>>
       ELSE IF started # 0
       THEN /\ Return(t, "Start", ErrSubSystemAlreadyStarted)
            /\ UNCHANGED <<started, nStarts>>
       ELSE /\ nStarts < MaxStarts
            /\ started' = 1
            /\ nStarts' = nStarts + 1
            /\ Goto(t, "start_init", <<>>)
    /\ UNCHANGED <<mgr, setupErr, config, initSyncStarted, initSyncCompleted,
                   initSyncWG, inService, panicked, regVars, envVars, workers, mon>>

\* Start: m.initSyncWG.Add(1), m.inService.Done(), GetExchanges and, per
\* exchange and asset, GetEnabledPairs.  Done on a zero counter panics.
StartInit(t) ==
    /\ ~panicked /\ threads[t].pc = "start_init"
    /\ initSyncWG' = initSyncWG + 1
    /\ IF inService = 0
       THEN /\ panicked' = TRUE
            /\ ret' = NoRet
            /\ UNCHANGED <<inService, threads>>
       ELSE /\ inService' = inService - 1
            /\ UNCHANGED panicked
            /\ \/ Return(t, "Start", errExternal)
               \/ Goto(t, "start_enum",
                       IF ~exch.supportsREST /\ ~exch.supportsWebsocket
                       THEN <<>> ELSE EnabledSeq)
    /\ UNCHANGED <<mgr, setupErr, config, started, initSyncStarted, initSyncCompleted,
                   nStarts, regVars, envVars, workers, mon>>

\* Start: m.exists for the next enabled pair.
StartExists(t) ==
    /\ ~panicked /\ threads[t].pc = "start_enum" /\ threads[t].todo # <<>>
    /\ mux = 0
    /\ IF exists(Key(Head(threads[t].todo)))
       THEN Goto(t, "start_enum", Tail(threads[t].todo))
       ELSE Goto(t, "start_add", threads[t].todo)
    /\ UNCHANGED <<lifeVars, regVars, envVars, workers, mon>>

\* Start: m.add of the unit of the pair.
StartAdd(t) ==
    /\ ~panicked /\ threads[t].pc = "start_add"
    /\ mux = 0
    /\ add(NewUnit(Head(threads[t].todo), StartUsingREST, StartUsingWebsocket))
    /\ Goto(t, "start_enum", Tail(threads[t].todo))
    /\ UNCHANGED <<mgr, setupErr, config, started, initSyncStarted, initSyncCompleted,
                   inService, panicked, nStarts, removedCounter,
                   tickerBatchLastRequested, mux, envVars, workers, mon>>

\* Start after the enumeration: arm the initial sync, spawn the monitor and,
\* unless the initial sync is complete and the sync is not continuous, spawn the
\* workers and m.initSyncWG.Done().
StartFinish(t) ==
    /\ ~panicked /\ threads[t].pc = "start_enum" /\ threads[t].todo = <<>>
    /\ initSyncStarted' = 1
    /\ mon' = [mon EXCEPT !.wait = @ + 1]
    /\ IF initSyncCompleted = 1 /\ ~config.SynchronizeContinuously
       THEN UNCHANGED <<workers, initSyncWG>>
       ELSE /\ workers' = workers \o [i \in 1..config.NumWorkers |-> NewWorker]
            /\ initSyncWG' = initSyncWG - 1
    /\ Return(t, "Start", Nil)
    /\ UNCHANGED <<mgr, setupErr, config, started, initSyncCompleted, inService,
                   panicked, nStarts, regVars, envVars>>

\* Stop, to its compare-and-swap of m.started.
StopCall(t) ==
    /\ ~panicked /\ Idle(t)
    /\ IF mgr = "nil"
       THEN /\ Return(t, "Stop", Wrap(ErrNilSubsystem))
            /\ UNCHANGED started
       ELSE IF started # 1
       THEN /\ Return(t, "Stop", Wrap(ErrSubSystemNotStarted))
            /\ UNCHANGED started
       ELSE /\ started' = 0
            /\ Goto(t, "stop_add", <<>>)
    /\ UNCHANGED <<mgr, setupErr, config, initSyncStarted, initSyncCompleted,
                   initSyncWG, inService, panicked, nStarts, regVars, envVars,
                   workers, mon>>

\* Stop: m.inService.Add(1).
StopAdd(t) ==
    /\ ~panicked /\ threads[t].pc = "stop_add"
    /\ inService' = inService + 1
    /\ Return(t, "Stop", Nil)
    /\ UNCHANGED <<mgr, setupErr, config, started, initSyncStarted, initSyncCompleted,
                   initSyncWG, panicked, nStarts, regVars, envVars, workers, mon>>

\* A caller's Update, as the websocket data handler and the tests call it.
UpdateCall(t, k, s, err) ==
    /\ ~panicked /\ Idle(t)
    /\ err # Nil /\ UpdateLocks(s) /\ Find(k) # 0
          => Units[Find(k)][StreamField(s)].NumErrors < MaxErrors
    /\ UpdateLocks(s) => mux = 0
    /\ Update(k, s, err)
    /\ ret' = [op |-> "Update", t |-> t, args |-> <<k, s, err>>, res |-> UpdateErr(k, s)]
    /\ UNCHANGED threads
    /\ UNCHANGED <<mgr, setupErr, config, started, initSyncStarted, initSyncCompleted,
                   inService, panicked, nStarts, cp, createdCounter,
                   tickerBatchLastRequested, mux, envVars, workers, mon>>

\* WaitForInitialSync, to m.inService.Wait().
WaitCall(t) ==
    /\ ~panicked /\ Idle(t)
    /\ IF mgr = "nil"
       THEN Return(t, "WaitForInitialSync", Wrap(ErrNilSubsystem))
       ELSE Goto(t, "wait_inservice", <<>>)
    /\ UNCHANGED <<lifeVars, regVars, envVars, workers, mon>>

\* m.inService.Wait() returns.
WaitInService(t) ==
    /\ ~panicked /\ threads[t].pc = "wait_inservice"
    /\ inService = 0
    /\ Goto(t, "wait_started", <<>>)
    /\ UNCHANGED <<lifeVars, regVars, envVars, workers, mon>>

\* The load of m.started after the wait.
WaitStarted(t) ==
    /\ ~panicked /\ threads[t].pc = "wait_started"
    /\ IF started = 0
       THEN Return(t, "WaitForInitialSync", Wrap(ErrSubSystemNotStarted))
       ELSE Goto(t, "wait_wg", <<>>)
    /\ UNCHANGED <<lifeVars, regVars, envVars, workers, mon>>

\* m.initSyncWG.Wait() returns.
WaitWG(t) ==
    /\ ~panicked /\ threads[t].pc = "wait_wg"
    /\ initSyncWG = 0
    /\ Return(t, "WaitForInitialSync", Nil)
    /\ UNCHANGED <<lifeVars, regVars, envVars, workers, mon>>

\* ------------------------------------------------------------------ monitor

\* The goroutine of Start: m.initSyncWG.Wait() returns.
MonitorWake ==
    /\ ~panicked /\ mon.wait > 0
    /\ initSyncWG = 0
    /\ mon' = [mon EXCEPT !.wait = @ - 1, !.cas = @ + 1]
    /\ ret' = NoRet
    /\ UNCHANGED <<lifeVars, regVars, envVars, threads, workers>>

\* A goroutine of Start that stops the manager whatever SynchronizeContinuously.
MonitorCASAlwaysStops ==
    /\ ~panicked /\ mon.cas > 0
    /\ initSyncCompleted' = 1
    /\ mon' = [mon EXCEPT !.cas = @ - 1,
                          !.stop = IF initSyncCompleted = 0 THEN @ + 1 ELSE @]
    /\ ret' = NoRet
    /\ UNCHANGED <<mgr, setupErr, config, started, initSyncStarted, initSyncWG,
                   inService, panicked, nStarts, regVars, envVars, threads, workers>>

\* The compare-and-swap of m.initSyncCompleted; the winner of a sync that is
\* not continuous goes on to Stop.
MonitorCAS ==
    /\ ~panicked /\ mon.cas > 0
    /\ initSyncCompleted' = 1
    /\ mon' = [mon EXCEPT !.cas = @ - 1,
                          !.stop = IF initSyncCompleted = 0 /\ ~config.SynchronizeContinuously
                                   THEN @ + 1 ELSE @]
    /\ ret' = NoRet
    /\ UNCHANGED <<mgr, setupErr, config, started, initSyncStarted, initSyncWG,
                   inService, panicked, nStarts, regVars, envVars, threads, workers>>

\* The monitor's m.Stop(), to its compare-and-swap.
MonitorStop ==
    /\ ~panicked /\ mon.stop > 0
    /\ started' = 0
    /\ mon' = [mon EXCEPT !.stop = @ - 1,
                          !.stopadd = IF started = 1 THEN @ + 1 ELSE @]
    /\ ret' = NoRet
    /\ UNCHANGED <<mgr, setupErr, config, initSyncStarted, initSyncCompleted, initSyncWG,
                   inService, panicked, nStarts, regVars, envVars, threads, workers>>

\* The monitor's m.Stop(): m.inService.Add(1).
MonitorStopAdd ==
    /\ ~panicked /\ mon.stopadd > 0
    /\ inService' = inService + 1
    /\ mon' = [mon EXCEPT !.stopadd = @ - 1]
    /\ ret' = NoRet
    /\ UNCHANGED <<mgr, setupErr, config, started, initSyncStarted, initSyncCompleted,
                   initSyncWG, panicked, nStarts, regVars, envVars, threads, workers>>

\* -------------------------------------------------------------- environment

\* The clock advances, up to a bound.
TickTo(max) ==
    /\ ~panicked /\ now < max
    /\ now' = now + 1
    /\ ret' = NoRet
    /\ UNCHANGED <<lifeVars, regVars, enabledPairs, exch, procVars>>
Tick == TickTo(MaxTime)

\* The exchange begins to report a pair as enabled.
EnablePair(p) ==
    /\ ~panicked /\ p \notin enabledPairs
    /\ enabledPairs' = enabledPairs \cup {p}
    /\ ret' = NoRet
    /\ UNCHANGED <<lifeVars, regVars, now, exch, procVars>>

\* ------------------------------------------------------------------ workers

NoUnit == [arr |-> 0, idx |-> 0]
Live(w) == w \in DOMAIN workers /\ workers[w].pc # "exited"
At(w, pc) == ~panicked /\ w \in DOMAIN workers /\ workers[w].pc = pc

\* The unit the worker's pointer c refers to, and the key it passes on.
C(w) == Deref(workers[w].c)
K(w) == KeyOf(C(w))

\* The worker at the next enabled stream from `stage` on, in the order
\* Orderbook, Ticker, Trade; after the last, or on continue, at the next pair.
Advance(wr, stage) ==
    IF stage = "ob" /\ config.SynchronizeOrderbook THEN [wr EXCEPT !.pc = "ob"]
    ELSE IF stage \in {"ob", "tk"} /\ config.SynchronizeTicker THEN [wr EXCEPT !.pc = "tk"]
    ELSE IF stage \in {"ob", "tk", "tr"} /\ config.SynchronizeTrades THEN [wr EXCEPT !.pc = "tr"]
    ELSE [wr EXCEPT !.pc = "pair", !.todo = Tail(@), !.c = NoUnit]

\* The due test of an Orderbook or Ticker stream.
Due(b) ==
    \/ b.LastUpdated = 0
    \/ now - b.LastUpdated > TimeoutRESTTicks /\ b.IsUsingREST
    \/ now - b.LastUpdated > TimeoutWebsocketTicks /\ b.IsUsingWebsocket

\* The due test of a Trade stream.
TradeDue(b) == b.LastUpdated = 0 \/ now - b.LastUpdated > TimeoutRESTTicks

\* An external fetch may fail while NumErrors is below the bound.
MayFail(k, s, err) ==
    err # Nil /\ UpdateLocks(s) /\ Find(k) # 0
        => Units[Find(k)][StreamField(s)].NumErrors < MaxErrors

\* The demotion block: setProcessing(true), the writes through c,
\* setProcessing(false).
Demoted(w, s) ==
    setProcessingIn(
        [arrays EXCEPT ![workers[w].c.arr][workers[w].c.idx][StreamField(s)] =
            [@ EXCEPT !.IsUsingWebsocket = FALSE, !.IsUsingREST = TRUE]],
        K(w), s, FALSE)

\* A loop head that does not load m.started.
WorkerTopKeepsSweeping(w) ==
    /\ At(w, "top")
    /\ workers' = [workers EXCEPT ![w] =
               [pc |-> "pair", todo |-> EnabledSeq, c |-> NoUnit,
                switchedToRest |-> FALSE,
                usingWebsocket |-> exch.supportsWebsocket /\ exch.websocketEnabled
                                     /\ exch.wsConnected]]
    /\ ret' = NoRet
    /\ UNCHANGED <<lifeVars, regVars, envVars, threads, mon>>

\* The head of the loop: for atomic.LoadInt32(&m.started) != 0, GetExchanges,
\* the sweep default of the exchange, GetEnabledPairs.
WorkerTop(w) ==
    /\ At(w, "top")
    /\ IF started = 0
       THEN workers' = [workers EXCEPT ![w].pc = "exited"]
       ELSE workers' = [workers EXCEPT ![w] =
               [pc |-> "pair", todo |-> EnabledSeq, c |-> NoUnit,
                switchedToRest |-> FALSE,
                usingWebsocket |-> exch.supportsWebsocket /\ exch.websocketEnabled
                                     /\ exch.wsConnected]]
    /\ ret' = NoRet
    /\ UNCHANGED <<lifeVars, regVars, envVars, threads, mon>>

\* The next pair: the load of m.started, m.get, and, were the error of get
\* == errSyncPairNotFound, the creation of the unit.
WorkerPair(w) ==
    /\ At(w, "pair")
    /\ LET wr == workers[w] IN
       IF wr.todo = <<>>
       THEN /\ workers' = [workers EXCEPT ![w].pc = "top"]
            /\ UNCHANGED <<arrays, cp, initSyncWG, createdCounter>>
       ELSE IF started = 0
       THEN /\ workers' = [workers EXCEPT ![w].pc = "exited"]
            /\ UNCHANGED <<arrays, cp, initSyncWG, createdCounter>>
       ELSE /\ mux = 0
            /\ LET k == Key(Head(wr.todo))
                   again == [wr EXCEPT !.switchedToRest = @ /\ ~wr.usingWebsocket]
                   u == [NewUnit(Head(wr.todo),
                                 ~wr.usingWebsocket /\ exch.supportsREST,
                                 wr.usingWebsocket) EXCEPT !.Created = now]
               IN  IF getErr(k) = Nil
                   THEN /\ workers' = [workers EXCEPT ![w] =
                                [Advance(again, "ob") EXCEPT !.c = getPtr(k)]]
                        /\ UNCHANGED <<arrays, cp, initSyncWG, createdCounter>>
                   ELSE IF getErr(k) = errSyncPairNotFound
                   THEN \* c is the worker's own unit; the registry gets a copy
                        /\ initSyncWG' = initSyncWG + AddCount
                        /\ createdCounter' = createdCounter + AddCount
                        /\ arrays' = Append(AppendArrays(u), <<u>>)
                        /\ cp' = AppendHeader
                        /\ workers' = [workers EXCEPT ![w] =
                                [Advance(again, "ob") EXCEPT
                                    !.c = [arr |-> Len(arrays') , idx |-> 1]]]
                   ELSE /\ workers' = [workers EXCEPT ![w] = Advance(wr, "next")]
                        /\ UNCHANGED <<arrays, cp, initSyncWG, createdCounter>>
    /\ ret' = NoRet
    /\ UNCHANGED <<mgr, setupErr, config, started, initSyncStarted, initSyncCompleted,
                   inService, panicked, nStarts, removedCounter,
                   tickerBatchLastRequested, mux, envVars, threads, mon>>

\* Orderbook: isProcessing, the due test, the grace period of a websocket
\* stream.
WorkerOb(w) ==
    /\ At(w, "ob") /\ mux = 0
    /\ LET wr == workers[w]
           b == C(w).Orderbook
       IN  workers' = [workers EXCEPT ![w] =
             IF isProcessing(K(w), SyncItemOrderbook) \/ ~Due(b)
             THEN Advance(wr, "tk")
             ELSE IF b.IsUsingWebsocket
             THEN IF now - C(w).Created < TimeoutWebsocketTicks
                  THEN Advance(wr, "next")
                  ELSE IF exch.supportsREST
                  THEN [wr EXCEPT !.pc = "ob_demote"]
                  ELSE [wr EXCEPT !.pc = "ob_set"]
             ELSE [wr EXCEPT !.pc = "ob_set"]]
    /\ ret' = NoRet
    /\ UNCHANGED <<lifeVars, regVars, envVars, threads, mon>>

WorkerObDemote(w) ==
    /\ At(w, "ob_demote") /\ mux = 0
    /\ arrays' = Demoted(w, SyncItemOrderbook)
    /\ workers' = [workers EXCEPT ![w].pc = "ob_set", ![w].switchedToRest = TRUE]
    /\ ret' = NoRet
    /\ UNCHANGED <<lifeVars, cp, createdCounter, removedCounter,
                   tickerBatchLastRequested, mux, envVars, threads, mon>>

\* setProcessing(..., SyncItemOrderbook, true) before UpdateOrderbook.
WorkerObSet(w) ==
    /\ At(w, "ob_set") /\ mux = 0
    /\ arrays' = setProcessingIn(arrays, K(w), SyncItemOrderbook, TRUE)
    /\ workers' = [workers EXCEPT ![w].pc = "ob_fetch"]
    /\ ret' = NoRet
    /\ UNCHANGED <<lifeVars, cp, createdCounter, removedCounter,
                   tickerBatchLastRequested, mux, envVars, threads, mon>>

\* UpdateOrderbook returns and the worker reports through Update.
WorkerObFetch(w, err) ==
    /\ At(w, "ob_fetch")
    /\ MayFail(K(w), SyncItemOrderbook, err)
    /\ UpdateLocks(SyncItemOrderbook) => mux = 0
    /\ Update(K(w), SyncItemOrderbook, err)
    /\ workers' = [workers EXCEPT ![w] = Advance(workers[w], "tk")]
    /\ ret' = NoRet
    /\ UNCHANGED <<mgr, setupErr, config, started, initSyncStarted, initSyncCompleted,
                   inService, panicked, nStarts, cp, createdCounter,
                   tickerBatchLastRequested, mux, envVars, threads, mon>>

\* Ticker: isProcessing, the due test, the grace period, and whether the
\* stream is in REST mode.
WorkerTk(w) ==
    /\ At(w, "tk") /\ mux = 0
    /\ LET wr == workers[w]
           b == C(w).Ticker
       IN  workers' = [workers EXCEPT ![w] =
             IF isProcessing(K(w), SyncItemTicker) \/ ~Due(b)
             THEN Advance(wr, "tr")
             ELSE IF b.IsUsingWebsocket /\ now - C(w).Created < TimeoutWebsocketTicks
             THEN Advance(wr, "next")
             ELSE IF b.IsUsingWebsocket /\ exch.supportsREST
             THEN [wr EXCEPT !.pc = "tk_demote"]
             ELSE IF b.IsUsingREST
             THEN [wr EXCEPT !.pc = "tk_set"]
             ELSE Advance(wr, "tr")]
    /\ ret' = NoRet
    /\ UNCHANGED <<lifeVars, regVars, envVars, threads, mon>>

WorkerTkDemote(w) ==
    /\ At(w, "tk_demote") /\ mux = 0
    /\ arrays' = Demoted(w, SyncItemTicker)
    /\ workers' = [workers EXCEPT ![w].pc = "tk_set", ![w].switchedToRest = TRUE]
    /\ ret' = NoRet
    /\ UNCHANGED <<lifeVars, cp, createdCounter, removedCounter,
                   tickerBatchLastRequested, mux, envVars, threads, mon>>

\* setProcessing(..., SyncItemTicker, true) before the ticker fetch.
WorkerTkSet(w) ==
    /\ At(w, "tk_set") /\ mux = 0
    /\ arrays' = setProcessingIn(arrays, K(w), SyncItemTicker, TRUE)
    /\ workers' = [workers EXCEPT ![w].pc =
                     IF exch.supportsRESTTickerBatching THEN "tk_batch" ELSE "tk_fetch"]
    /\ ret' = NoRet
    /\ UNCHANGED <<lifeVars, cp, createdCounter, removedCounter,
                   tickerBatchLastRequested, mux, envVars, threads, mon>>

\* The first critical section of the batching branch: read
\* m.tickerBatchLastRequested[exchangeName] (-1: no entry), enter the zero time
\* if there is none, and test the age of the last batch.
WorkerTkBatch(w) ==
    /\ At(w, "tk_batch") /\ mux = 0
    /\ LET batchLastDone == IF tickerBatchLastRequested = -1 THEN 0
                            ELSE tickerBatchLastRequested
       IN  /\ tickerBatchLastRequested' = batchLastDone
           /\ workers' = [workers EXCEPT ![w].pc =
                 IF batchLastDone = 0 \/ now - batchLastDone > TimeoutRESTTicks
                 THEN "tk_batchlock" ELSE "tk_fetch"]
    /\ ret' = NoRet
    /\ UNCHANGED <<lifeVars, arrays, cp, createdCounter, removedCounter, mux,
                   envVars, threads, mon>>

\* m.mux.Lock() before UpdateTickers.
WorkerTkBatchLock(w) ==
    /\ At(w, "tk_batchlock") /\ mux = 0
    /\ mux' = w
    /\ workers' = [workers EXCEPT ![w].pc = "tk_batchcall"]
    /\ ret' = NoRet
    /\ UNCHANGED <<lifeVars, arrays, cp, createdCounter, removedCounter,
                   tickerBatchLastRequested, envVars, threads, mon>>

\* UpdateTickers and FetchTicker return, the batch time is recorded, the lock
\* released, and the worker reports through Update.
WorkerTkBatchCall(w, err) ==
    /\ At(w, "tk_batchcall") /\ mux = w
    /\ MayFail(K(w), SyncItemTicker, err)
    /\ tickerBatchLastRequested' = now
    /\ mux' = 0
    /\ Update(K(w), SyncItemTicker, err)
    /\ workers' = [workers EXCEPT ![w] = Advance(workers[w], "tr")]
    /\ ret' = NoRet
    /\ UNCHANGED <<mgr, setupErr, config, started, initSyncStarted, initSyncCompleted,
                   inService, panicked, nStarts, cp, createdCounter,
                   envVars, threads, mon>>

\* UpdateTicker, or FetchTicker from the recent batch, returns and the worker
\* reports through Update.
WorkerTkFetch(w, err) ==
    /\ At(w, "tk_fetch")
    /\ MayFail(K(w), SyncItemTicker, err)
    /\ UpdateLocks(SyncItemTicker) => mux = 0
    /\ Update(K(w), SyncItemTicker, err)
    /\ workers' = [workers EXCEPT ![w] = Advance(workers[w], "tr")]
    /\ ret' = NoRet
    /\ UNCHANGED <<mgr, setupErr, config, started, initSyncStarted, initSyncCompleted,
                   inService, panicked, nStarts, cp, createdCounter,
                   tickerBatchLastRequested, mux, envVars, threads, mon>>

\* Trade: isProcessing and the due test.
WorkerTr(w) ==
    /\ At(w, "tr") /\ mux = 0
    /\ workers' = [workers EXCEPT ![w] =
          IF ~isProcessing(K(w), SyncItemTrade) /\ TradeDue(C(w).Trade)
          THEN [workers[w] EXCEPT !.pc = "tr_set"]
          ELSE Advance(workers[w], "next")]
    /\ ret' = NoRet
    /\ UNCHANGED <<lifeVars, regVars, envVars, threads, mon>>

\* setProcessing(..., SyncItemTrade, true).
WorkerTrSet(w) ==
    /\ At(w, "tr_set") /\ mux = 0
    /\ arrays' = setProcessingIn(arrays, K(w), SyncItemTrade, TRUE)
    /\ workers' = [workers EXCEPT ![w].pc = "tr_upd"]
    /\ ret' = NoRet
    /\ UNCHANGED <<lifeVars, cp, createdCounter, removedCounter,
                   tickerBatchLastRequested, mux, envVars, threads, mon>>

\* Update(..., SyncItemTrade, nil).
WorkerTrUpd(w) ==
    /\ At(w, "tr_upd")
    /\ UpdateLocks(SyncItemTrade) => mux = 0
    /\ Update(K(w), SyncItemTrade, Nil)
    /\ workers' = [workers EXCEPT ![w] = Advance(workers[w], "next")]
    /\ ret' = NoRet
    /\ UNCHANGED <<mgr, setupErr, config, started, initSyncStarted, initSyncCompleted,
                   inService, panicked, nStarts, cp, createdCounter,
                   tickerBatchLastRequested, mux, envVars, threads, mon>>

Worker(w) ==
    \/ WorkerTop(w) \/ WorkerPair(w)
    \/ WorkerOb(w) \/ WorkerObDemote(w) \/ WorkerObSet(w)
    \/ \E err \in {Nil, errExternal} : WorkerObFetch(w, err)
    \/ WorkerTk(w) \/ WorkerTkDemote(w) \/ WorkerTkSet(w)
    \/ WorkerTkBatch(w) \/ WorkerTkBatchLock(w)
    \/ \E err \in {Nil, errExternal} : WorkerTkBatchCall(w, err)
    \/ \E err \in {Nil, errExternal} : WorkerTkFetch(w, err)
    \/ WorkerTr(w) \/ WorkerTrSet(w) \/ WorkerTrUpd(w)

\* The monitor goroutine, and its Stop of a sync that is not continuous.
Monitor == MonitorWake \/ MonitorCAS
MonitorAutoStop == MonitorStop \/ MonitorStopAdd

\* ----------------------------------------------------------- specifications

ZeroConfig ==
    [SynchronizeTicker |-> FALSE, SynchronizeOrderbook |-> FALSE,
     SynchronizeTrades |-> FALSE, websocketRoutineManagerEnabled |-> FALSE,
     SynchronizeContinuously |-> FALSE, NumWorkers |-> 0]

Cfg(tk, ob, tr, cont, n, ws) ==
    [SynchronizeTicker |-> tk, SynchronizeOrderbook |-> ob,
     SynchronizeTrades |-> tr, websocketRoutineManagerEnabled |-> ws,
     SynchronizeContinuously |-> cont, NumWorkers |-> n]

Exch(rest, ws, wsOn, batch, wsAsset, conn) ==
    [wsAssetSupported |-> wsAsset, supportsWebsocket |-> ws,
     websocketEnabled |-> wsOn, supportsREST |-> rest, wsConnected |-> conn,
     supportsRESTTickerBatching |-> batch]

RESTOnly == Exch(TRUE, FALSE, FALSE, FALSE, FALSE, FALSE)
RESTBatching == Exch(TRUE, FALSE, FALSE, TRUE, FALSE, FALSE)
WebsocketAndREST == Exch(TRUE, TRUE, TRUE, FALSE, TRUE, TRUE)
WebsocketOnly == Exch(FALSE, TRUE, TRUE, FALSE, TRUE, TRUE)

InitWith(exchs, pairSets) ==
    /\ mgr = "nil" /\ setupErr = Nil /\ config = ZeroConfig
    /\ started = 0 /\ initSyncStarted = 0 /\ initSyncCompleted = 0
    /\ initSyncWG = 0 /\ inService = 0 /\ panicked = FALSE /\ nStarts = 0
    /\ arrays = <<>> /\ cp = [arr |-> 0, len |-> 0, cap |-> 0]
    /\ createdCounter = 0 /\ removedCounter = 0
    /\ tickerBatchLastRequested = -1 /\ mux = 0
    /\ now = 1
    /\ enabledPairs \in pairSets
    /\ exch \in exchs
    /\ threads = [t \in Threads |-> [pc |-> "idle", todo |-> <<>>]]
    /\ ret = NoRet
    /\ workers = <<>>
    /\ mon = [wait |-> 0, cas |-> 0, stop |-> 0, stopadd |-> 0]

\* The calls of the public operations, with the keys and stream kinds callers
\* pass to Update.
UpdateKeys == {Key("BTC-USD"), Key(UnknownPair)}
UpdateKinds == StreamKinds \cup {3}

\* The lifecycle calls of a thread.
Start(t) == StartCall(t) \/ StartInit(t) \/ StartExists(t) \/ StartAdd(t) \/ StartFinish(t)
Stop(t) == StopCall(t) \/ StopAdd(t)
WaitForInitialSync(t) == WaitCall(t) \/ WaitInService(t) \/ WaitStarted(t) \/ WaitWG(t)

\* Spec: one thread starts the manager while another calls Update, with one
\* worker, on a REST exchange; the Ticker stream is disabled.
Init == InitWith({RESTOnly}, {{"BTC-USD"}})
Next ==
    \/ \E c \in {Cfg(FALSE, FALSE, FALSE, FALSE, 1, FALSE),
                 Cfg(FALSE, TRUE, TRUE, TRUE, 1, FALSE)} : Setup(c)
    \/ Start(1)
    \/ \E k \in UpdateKeys, s \in UpdateKinds, err \in {Nil, errExternal} :
            UpdateCall(2, k, s, err)
    \/ Monitor
    \/ \E w \in DOMAIN workers : Worker(w)
    \/ Tick
Spec == Init /\ [][Next]_vars

\* SpecWorkers: two workers sweep one unit with all three streams, on a REST
\* exchange and on an exchange in websocket mode that also supports REST.
InitWorkers == InitWith({RESTOnly, WebsocketAndREST}, {{"BTC-USD"}})
NextWorkers ==
    \/ Setup(Cfg(TRUE, TRUE, TRUE, TRUE, 2, TRUE))
    \/ Start(1)
    \/ Monitor
    \/ \E w \in DOMAIN workers : Worker(w)
    \/ Tick
SpecWorkers == InitWorkers /\ [][NextWorkers]_vars

\* SpecLifecycle: two threads call Start and Stop concurrently.
NextLifecycle ==
    \/ Setup(Cfg(FALSE, TRUE, FALSE, TRUE, 1, FALSE))
    \/ \E t \in Threads : Start(t)
    \/ \E t \in Threads : Stop(t)
    \/ Monitor
    \/ \E w \in DOMAIN workers : Worker(w)
SpecLifecycle == Init /\ [][NextLifecycle]_vars

\* SpecRestart: one thread starts, stops and starts again while the exchange
\* begins to report a second pair.
NextRestart ==
    \/ \E c \in {Cfg(FALSE, TRUE, FALSE, TRUE, 1, FALSE),
                 Cfg(FALSE, TRUE, FALSE, FALSE, 1, FALSE)} : Setup(c)
    \/ Start(1)
    \/ Stop(1)
    \/ Monitor \/ MonitorAutoStop
    \/ \E w \in DOMAIN workers : Worker(w)
    \/ EnablePair("ETH-USD")
SpecRestart == Init /\ [][NextRestart]_vars

\* SpecWait: a sync that is not continuous; one thread starts the manager and
\* another calls WaitForInitialSync before Start has returned.
NextWait ==
    \/ Setup(Cfg(FALSE, TRUE, FALSE, FALSE, 1, FALSE))
    \/ Start(1)
    \/ initSyncStarted = 0 /\ WaitCall(2)
    \/ WaitInService(2) \/ WaitStarted(2) \/ WaitWG(2)
    \/ Monitor \/ MonitorAutoStop
    \/ \E w \in DOMAIN workers : Worker(w)
SpecWait == Init /\ [][NextWait]_vars

\* SpecLive: one worker sweeps one unit with all three streams on a REST
\* exchange, with and without ticker batching; every fetch returns, with or
\* without an error.  The Go scheduler runs every runnable goroutine, so the
\* worker and the monitor are weakly fair.
InitLive == InitWith({RESTOnly, RESTBatching}, {{"BTC-USD"}})
NextLive ==
    \/ Setup(Cfg(TRUE, TRUE, TRUE, TRUE, 1, FALSE))
    \/ Start(1)
    \/ Monitor
    \/ \E w \in DOMAIN workers : Worker(w)
    \/ Tick
SpecLive ==
    /\ InitLive /\ [][NextLive]_vars
    /\ WF_vars(\E w \in DOMAIN workers : Worker(w))
    /\ WF_vars(Monitor)

\* SpecMonitor: one Start of a sync that is continuous or not, with one worker
\* and no caller of Stop; the worker and the goroutine of Start are weakly fair.
NextMonitor ==
    \/ \E c \in {Cfg(FALSE, TRUE, TRUE, TRUE, 1, FALSE),
                 Cfg(FALSE, TRUE, TRUE, FALSE, 1, FALSE)} : Setup(c)
    \/ Start(1)
    \/ Monitor \/ MonitorAutoStop
    \/ \E w \in DOMAIN workers : Worker(w)
    \/ Tick
SpecMonitor ==
    /\ Init /\ [][NextMonitor]_vars
    /\ WF_vars(\E w \in DOMAIN workers : Worker(w))
    /\ WF_vars(Monitor) /\ WF_vars(MonitorAutoStop)

\* SpecDemote: an exchange in websocket mode that supports REST, with the
\* Orderbook stream; one thread starts, stops and starts again, and the
\* exchange begins to report a second pair while the manager is stopped.  The
\* runs are those in which the goroutine of Start is not scheduled.
InitDemote == InitWith({WebsocketAndREST}, {{"BTC-USD"}})
NextDemote ==
    \/ Setup(Cfg(FALSE, TRUE, FALSE, TRUE, 1, TRUE))
    \/ Start(1)
    \/ Stop(1)
    \/ \E w \in DOMAIN workers : Worker(w)
    \/ started = 0 /\ EnablePair("ETH-USD")
    \/ Tick
SpecDemote == InitDemote /\ [][NextDemote]_vars

\* SpecBatch: two workers sweep the Ticker streams of two pairs on a REST
\* exchange with ticker batching.
InitBatch == InitWith({RESTBatching}, {{"BTC-USD", "ETH-USD"}})
NextBatch ==
    \/ Setup(Cfg(TRUE, FALSE, FALSE, TRUE, 2, FALSE))
    \/ Start(1)
    \/ Monitor
    \/ \E w \in DOMAIN workers : Worker(w)
    \/ Tick
SpecBatch == InitBatch /\ [][NextBatch]_vars

\* SpecLazy: one Start with one worker on a REST exchange; the exchange begins
\* to report a second pair at any time.
NextLazy ==
    \/ Setup(Cfg(FALSE, TRUE, TRUE, TRUE, 1, FALSE))
    \/ Start(1)
    \/ Monitor
    \/ \E w \in DOMAIN workers : Worker(w)
    \/ EnablePair("ETH-USD")
    \/ Tick
SpecLazy == Init /\ [][NextLazy]_vars

\* Further exchanges: one without REST whose websocket is supported and not
\* enabled, and one in websocket mode whose asset has no websocket support.
WebsocketOff == Exch(FALSE, TRUE, FALSE, FALSE, TRUE, FALSE)
WebsocketNoAsset == Exch(TRUE, TRUE, TRUE, FALSE, FALSE, TRUE)

\* SpecTransport: one Start with one worker and the Ticker and Orderbook
\* streams, on each kind of exchange.
InitTransport ==
    InitWith({RESTOnly, WebsocketAndREST, WebsocketOnly, WebsocketOff, WebsocketNoAsset},
             {{"BTC-USD"}})
NextTransport ==
    \/ Setup(Cfg(TRUE, TRUE, FALSE, TRUE, 1, TRUE))
    \/ Start(1)
    \/ Monitor
    \/ \E w \in DOMAIN workers : Worker(w)
    \/ Tick
SpecTransport == InitTransport /\ [][NextTransport]_vars

\* SpecPromote: one Start with one worker and the Ticker and Orderbook streams
\* on an exchange in websocket mode that supports REST, over a clock long
\* enough for a second fetch of a demoted stream.
NextPromote ==
    \/ Setup(Cfg(TRUE, TRUE, FALSE, TRUE, 1, TRUE))
    \/ Start(1)
    \/ Monitor
    \/ \E w \in DOMAIN workers : Worker(w)
    \/ TickTo(MaxTime + 1)
SpecPromote == InitDemote /\ [][NextPromote]_vars

\* SpecStop: one Start and no later one; another thread calls Stop while two
\* workers sweep the Ticker streams of two pairs on a REST exchange with
\* ticker batching.  Every fetch returns and the Go scheduler runs every
\* runnable goroutine, so the workers are weakly fair.
InitStop == InitWith({RESTBatching}, {{"BTC-USD", "ETH-USD"}})
NextStop ==
    \/ Setup(Cfg(TRUE, FALSE, FALSE, TRUE, 2, FALSE))
    \/ (nStarts = 0 \/ ~Idle(1)) /\ Start(1)
    \/ Stop(2)
    \/ Monitor
    \/ \E w \in DOMAIN workers : Worker(w)
SpecStop ==
    /\ InitStop /\ [][NextStop]_vars
    /\ WF_vars(\E w \in DOMAIN workers : Worker(w))

\* ------------------------------------------------------------------- claims

\* The stream state of the first unit with the key: what get returns.
Stream(k, s) == Units[Find(k)][StreamField(s)]
Counters == <<createdCounter, removedCounter, initSyncWG>>
Registry == <<arrays, cp>>

\* C1: for every unit and stream, two workers never have an external fetch
\* (UpdateOrderbook, UpdateTicker, FetchTicker) for the same (unit, stream) in
\* flight at the same time.
Fetching(w, s) ==
    \/ s = SyncItemOrderbook /\ workers[w].pc = "ob_fetch"
    \/ s = SyncItemTicker /\ workers[w].pc \in {"tk_fetch", "tk_batchcall"}
C1_OneFetchInFlight ==
    \A w1, w2 \in DOMAIN workers, s \in {SyncItemOrderbook, SyncItemTicker} :
        w1 # w2 /\ Fetching(w1, s) /\ Fetching(w2, s) => K(w1) # K(w2)

\* C2: the latch is decremented, and removedCounter incremented, at most once
\* per (unit, stream), in the step that turns HaveData from false to true; an
\* Update of a stream that has data, with or without an error, leaves
\* createdCounter, removedCounter and the latch unchanged.
Flips ==
    {is \in (1..Len(Units)) \X StreamKinds :
        /\ ~Units[is[1]][StreamField(is[2])].HaveData
        /\ Units'[is[1]][StreamField(is[2])].HaveData}
WorkerUpdates(w, k, s) ==
    /\ workers[w].pc # workers'[w].pc
    /\ \/ s = SyncItemOrderbook /\ workers[w].pc = "ob_fetch"
       \/ s = SyncItemTicker /\ workers[w].pc \in {"tk_fetch", "tk_batchcall"}
       \/ s = SyncItemTrade /\ workers[w].pc = "tr_upd"
    /\ K(w) = k
UpdateStep(k, s) ==
    \/ ret'.op = "Update" /\ ret'.args[1] = k /\ ret'.args[2] = s
    \/ \E w \in DOMAIN workers : WorkerUpdates(w, k, s)
C2Step ==
    /\ removedCounter' \in {removedCounter, removedCounter + 1}
    /\ removedCounter' = removedCounter + 1
          => Cardinality(Flips) = 1 /\ initSyncWG' = initSyncWG - 1
    /\ \A i \in 1..Len(Units), s \in StreamKinds :
          Units[i][StreamField(s)].HaveData => Units'[i][StreamField(s)].HaveData
    /\ \A k \in UpdateKeys, s \in StreamKinds :
          UpdateStep(k, s) /\ Find(k) # 0 /\ Stream(k, s).HaveData
              => UNCHANGED Counters
C2_LatchOncePerStream == [][C2Step]_vars
\* A later Update, without an error, of a stream whose first datum was an error.
C2_Witness ==
    /\ ret.op = "Update" /\ ret.res = Nil
    /\ ret.args = <<Key("BTC-USD"), SyncItemOrderbook, Nil>>
    /\ Find(Key("BTC-USD")) # 0
    /\ Stream(Key("BTC-USD"), SyncItemOrderbook).NumErrors = 1
    /\ removedCounter = 1 /\ initSyncCompleted = 0

\* C3: removedCounter <= createdCounter in every state, and they are equal in
\* every state where the initial sync has completed.
C3_CountersAgree ==
    /\ removedCounter <= createdCounter
    /\ initSyncCompleted = 1 => removedCounter = createdCounter

\* C4: on a started manager whose initial sync has started, after Update for a
\* registered unit and an enabled stream returns nil, the stream has
\* HaveData, is not processing, has LastUpdated not before the time of the
\* call, and NumErrors is its previous value plus 1 if err was non-nil.
C4Step ==
    \A k \in UpdateKeys, s \in StreamKinds, e \in {Nil, errExternal} :
        /\ ret'.op = "Update" /\ ret'.args = <<k, s, e>> /\ ret'.res = Nil
        /\ started = 1 /\ initSyncStarted = 1 /\ StreamEnabled(s) /\ Find(k) # 0
        => /\ Find(k)' # 0
           /\ Stream(k, s)'.HaveData
           /\ ~Stream(k, s)'.IsProcessing
           /\ Stream(k, s)'.LastUpdated >= now
           /\ Stream(k, s)'.NumErrors =
                 Stream(k, s).NumErrors + (IF e # Nil THEN 1 ELSE 0)
C4_UpdateRoundTrip == [][C4Step]_vars
\* An Update with an error has just returned nil while a worker's fetch of the
\* same stream is in flight.
C4_Witness ==
    /\ ret.op = "Update" /\ ret.res = Nil
    /\ ret.args = <<Key("BTC-USD"), SyncItemOrderbook, errExternal>>
    /\ started = 1 /\ initSyncStarted = 1
    /\ \E w \in DOMAIN workers : workers[w].pc = "ob_fetch"
    /\ Stream(Key("BTC-USD"), SyncItemOrderbook).NumErrors = 1

\* C5 as stated: Update with a stream kind outside {0, 1, 2} fails with
\* errUnknownSyncItem, and Update for a key that is not in the registry fails
\* with errCouldNotSyncNewData.
C5_Original ==
    ret.op = "Update" /\ mgr = "ok"
    => /\ ret.args[2] \notin StreamKinds => Is(ret.res, errUnknownSyncItem)
       /\ ret.args[2] \in StreamKinds /\ Find(ret.args[1]) = 0
             => Is(ret.res, errCouldNotSyncNewData)

\* C5: on a started manager whose initial sync has started, Update with a
\* stream kind outside {0, 1, 2} fails with errUnknownSyncItem and Update with
\* an enabled stream kind for a key that is not in the registry fails with
\* errCouldNotSyncNewData; on a manager that is not started Update fails with
\* ErrSubSystemNotStarted; a failing Update changes no unit, no counter and
\* not the latch.
C5Step ==
    ret'.op = "Update" /\ mgr = "ok"
    => LET k == ret'.args[1]
           s == ret'.args[2]
       IN  /\ started = 0 => Is(ret'.res, ErrSubSystemNotStarted)
           /\ started = 1 /\ initSyncStarted = 1 /\ s \notin StreamKinds
                 => Is(ret'.res, errUnknownSyncItem)
           /\ started = 1 /\ initSyncStarted = 1 /\ s \in StreamKinds
                 /\ StreamEnabled(s) /\ Find(k) = 0
                 => Is(ret'.res, errCouldNotSyncNewData)
           /\ ret'.res # Nil => UNCHANGED <<Registry, Counters>>
C5_UpdateErrors == [][C5Step]_vars
\* Update with stream kind 3 has failed on a started manager with a unit.
C5_Witness ==
    /\ ret.op = "Update" /\ Is(ret.res, errUnknownSyncItem)
    /\ ret.args[2] = 3
    /\ started = 1 /\ Len(Units) > 0

\* C6: on a started manager, Update before the initial sync has started, or
\* for a stream whose Synchronize* flag is false, returns nil and changes no
\* unit, no counter and not the latch.
C6Step ==
    /\ ret'.op = "Update" /\ mgr = "ok" /\ started = 1
    /\ \/ initSyncStarted = 0
       \/ ret'.args[2] \in StreamKinds /\ ~StreamEnabled(ret'.args[2])
    => ret'.res = Nil /\ UNCHANGED <<Registry, Counters>>
C6_UpdateNoOp == [][C6Step]_vars
\* Update of a registered unit's enabled stream has returned nil between the
\* unit's add and the arming of the initial sync.
C6_Witness ==
    /\ ret.op = "Update" /\ ret.res = Nil
    /\ ret.args = <<Key("BTC-USD"), SyncItemOrderbook, errExternal>>
    /\ started = 1 /\ initSyncStarted = 0
    /\ Find(Key("BTC-USD")) # 0

\* C7: Start enters its body only by changing m.started from 0 to 1 and Stop
\* only by changing it from 1 to 0; a Start that does not, returns
\* ErrSubSystemAlreadyStarted on a started manager, and a Stop that does not,
\* returns ErrSubSystemNotStarted on a stopped one, both leaving m.started as
\* it was; so of concurrent Start calls on a stopped manager one succeeds.
C7Step ==
    \A t \in Threads :
        /\ Idle(t) /\ threads'[t].pc = "start_init" => started = 0 /\ started' = 1
        /\ Idle(t) /\ threads'[t].pc = "stop_add" => started = 1 /\ started' = 0
        /\ Idle(t) /\ mgr = "ok" /\ ret'.op = "Start" /\ ret'.t = t
              => /\ started = 1 /\ started' = 1
                 /\ ret'.res = ErrSubSystemAlreadyStarted
        /\ Idle(t) /\ mgr = "ok" /\ ret'.op = "Stop" /\ ret'.t = t
              => /\ started = 0 /\ started' = 0
                 /\ Is(ret'.res, ErrSubSystemNotStarted)
        /\ started = 0 /\ started' = 1
              => Cardinality({u \in Threads :
                     Idle(u) /\ threads'[u].pc = "start_init"}) = 1
C7_LifecycleCAS == [][C7Step]_vars
\* One thread is inside Start and the other's Start has just been refused.
C7_Witness ==
    /\ ret.op = "Start" /\ ret.res = ErrSubSystemAlreadyStarted
    /\ \E t \in Threads : t # ret.t /\ threads[t].pc \in {"start_init", "start_enum", "start_add"}

\* C8 as stated: Start returns errNoSyncItemsEnabled when all three
\* Synchronize* flags are false.
C8_Original ==
    ret.op = "Start" /\ setupErr = errNoSyncItemsEnabled
        => Is(ret.res, errNoSyncItemsEnabled)

\* C8: setupSyncManager returns errNoSyncItemsEnabled and constructs no manager
\* when all three Synchronize* flags are false; Start on the nil manager
\* returns ErrNilSubsystem, so no manager with zero enabled streams ever is
\* started.
C8_SetupRejects ==
    /\ setupErr = errNoSyncItemsEnabled => mgr = "nil"
    /\ mgr = "nil" => started = 0
    /\ mgr = "ok" => EnabledStreams >= 1
    /\ ret.op = "Start" /\ mgr = "nil" => Is(ret.res, ErrNilSubsystem)
\* Start has been called after setupSyncManager rejected the configuration.
C8_Witness ==
    /\ ret.op = "Start" /\ Is(ret.res, ErrNilSubsystem)
    /\ setupErr = errNoSyncItemsEnabled

\* C9 as stated: a WaitForInitialSync that began before Start returned, on a
\* manager whose sync is not continuous, returns nil.
C9_WaitReturnsNil ==
    ret.op = "WaitForInitialSync" /\ mgr = "ok" => ret.res = Nil

\* C10: once the workers run, the initial sync completes, whether the fetches
\* return errors or not; and a worker's Update with an error of a stream
\* without data gives it HaveData and decrements the latch.
C10Step ==
    \A w \in DOMAIN workers, s \in {SyncItemOrderbook, SyncItemTicker} :
        /\ WorkerUpdates(w, K(w), s) /\ UpdateLocks(s)
        /\ Find(K(w)) # 0 /\ ~Stream(K(w), s).HaveData /\ initSyncCompleted = 0
        => /\ Stream(K(w), s)'.HaveData
           /\ initSyncWG' = initSyncWG - 1
           /\ workers'[w].pc # "exited"
C10_BarrierCloses ==
    /\ [][C10Step]_vars
    /\ (Len(workers) > 0) ~> (initSyncCompleted = 1)
\* The initial sync has completed although the first fetch of the orderbook and
\* of the ticker returned an error.
C10_Witness ==
    /\ initSyncCompleted = 1 /\ Len(workers) > 0
    /\ Find(Key("BTC-USD")) # 0
    /\ Stream(Key("BTC-USD"), SyncItemOrderbook).NumErrors = 1
    /\ Stream(Key("BTC-USD"), SyncItemTicker).NumErrors = 1
    /\ Stream(Key("BTC-USD"), SyncItemTrade).HaveData
    /\ removedCounter = 3 /\ createdCounter = 3

\* C11: m.initSyncCompleted becomes 1 only while the latch is at zero, and once
\* the latch of an armed initial sync is at zero it does become 1; if the sync
\* is not continuous the manager then reaches m.started = 0 with the initial
\* sync completed; if the sync is continuous no step of the goroutine of Start
\* changes m.started.
C11Step ==
    /\ initSyncCompleted = 0 /\ initSyncCompleted' = 1 => initSyncWG = 0
    /\ config.SynchronizeContinuously /\ started = 1 => started' = 1
    /\ config.SynchronizeContinuously => mon'.stop = 0 /\ mon'.stopadd = 0
C11_MonitorCloses ==
    /\ [][C11Step]_vars
    /\ (initSyncStarted = 1 /\ initSyncWG = 0) ~> (initSyncCompleted = 1)
    /\ (initSyncStarted = 1 /\ initSyncWG = 0 /\ initSyncCompleted = 0
           /\ ~config.SynchronizeContinuously) ~> (initSyncCompleted = 1 /\ started = 0)
\* The goroutine of Start has stopped a sync that is not continuous after the
\* worker delivered both streams.
C11_Witness ==
    /\ ~config.SynchronizeContinuously /\ mgr = "ok"
    /\ initSyncCompleted = 1 /\ started = 0 /\ inService = 1
    /\ removedCounter = 2 /\ mon = [wait |-> 0, cas |-> 0, stop |-> 0, stopadd |-> 0]

\* C12: when a worker reaches a Ticker or Orderbook stream that is in websocket
\* mode in the registry, not processing, due by TimeoutWebsocket, of a unit
\* created at least TimeoutWebsocket ago, on an exchange that supports REST, it
\* goes on to the demotion, the demotion leaves the stream of the registry with
\* IsUsingWebsocket = false and IsUsingREST = true, and the worker goes on to
\* the REST fetch without leaving the pair.
DemotionDue(k, s) ==
    /\ Find(k) # 0
    /\ Stream(k, s).IsUsingWebsocket /\ ~Stream(k, s).IsProcessing
    /\ now - Units[Find(k)].Created >= TimeoutWebsocketTicks
    /\ \/ Stream(k, s).LastUpdated = 0
       \/ now - Stream(k, s).LastUpdated > TimeoutWebsocketTicks
    /\ exch.supportsREST
InRESTMode(b) == b.IsUsingREST /\ ~b.IsUsingWebsocket
C12Step ==
    \A w \in DOMAIN workers :
        LET pc == workers[w].pc
            pc2 == workers'[w].pc
        IN  pc # pc2 =>
            /\ pc = "ob" /\ DemotionDue(K(w), SyncItemOrderbook) => pc2 = "ob_demote"
            /\ pc = "tk" /\ DemotionDue(K(w), SyncItemTicker) => pc2 = "tk_demote"
            /\ pc = "ob_demote"
                  => pc2 = "ob_set" /\ Find(K(w))' # 0
                     /\ InRESTMode(Stream(K(w), SyncItemOrderbook)')
            /\ pc = "tk_demote"
                  => pc2 = "tk_set" /\ Find(K(w))' # 0
                     /\ InRESTMode(Stream(K(w), SyncItemTicker)')
            /\ pc = "ob_set" => pc2 = "ob_fetch"
            /\ pc = "tk_set" => pc2 \in {"tk_fetch", "tk_batch"}
            /\ pc = "tk_batch" => pc2 \in {"tk_fetch", "tk_batchlock"}
            /\ pc = "tk_batchlock" => pc2 = "tk_batchcall"
C12_DemotionInSweep == [][C12Step]_vars

\* C13: while a worker is in UpdateTickers for the exchange, the last batch
\* recorded for the exchange, if any, is at least TimeoutREST old.
C13_BatchesPaced ==
    \A w \in DOMAIN workers :
        workers[w].pc = "tk_batchcall"
            => \/ tickerBatchLastRequested <= 0
               \/ now - tickerBatchLastRequested >= TimeoutRESTTicks

\* C14: no worker holds m.mux while one of its calls of the exchange
\* (UpdateOrderbook, UpdateTicker, UpdateTickers, FetchTicker) is in progress.
ExternalCall(w) == workers[w].pc \in {"ob_fetch", "tk_fetch", "tk_batchcall"}
C14_NoLockAcrossCall ==
    \A w \in DOMAIN workers : ExternalCall(w) => mux # w

\* C15: when a worker of a started manager reaches an enabled pair that has no
\* unit in the registry, its step creates the unit: exists is true afterwards.
C15Step ==
    \A w \in DOMAIN workers, p \in {"BTC-USD", "ETH-USD"} :
        /\ workers[w].pc = "pair" /\ workers[w].todo # <<>>
        /\ Head(workers[w].todo) = p
        /\ started = 1 /\ ~exists(Key(p))
        /\ workers'[w] # workers[w]
        => exists(Key(p))'
C15_LazyUnit == [][C15Step]_vars

\* C16: the registry never holds two units with the same Exchange, Pair and
\* AssetType.
C16_NoDuplicates ==
    \A i, j \in 1..Len(Units) : KeyOf(Units[i]) = KeyOf(Units[j]) => i = j

\* C17: every enabled stream of every unit of the registry has exactly one of
\* IsUsingREST and IsUsingWebsocket.
C17_OneTransport ==
    \A i \in 1..Len(Units), s \in StreamKinds :
        StreamEnabled(s) =>
            LET b == Units[i][StreamField(s)]
            IN  /\ ~(b.IsUsingREST /\ b.IsUsingWebsocket)
                /\ b.IsUsingREST \/ b.IsUsingWebsocket
\* C17, first half: no stream of a unit of the registry has both transports.
C17_NotBoth ==
    \A i \in 1..Len(Units), s \in StreamKinds :
        ~(Units[i][StreamField(s)].IsUsingREST /\ Units[i][StreamField(s)].IsUsingWebsocket)

\* C18: on an exchange whose streams Start put in websocket mode, when a
\* worker whose sweep found the websocket connected reports, through Update, a
\* later fetch of a stream that is in REST mode (demoted, and with data from
\* the fetch of its demotion), the stream is in websocket mode afterwards.
C18Step ==
    \A w \in DOMAIN workers, s \in {SyncItemOrderbook, SyncItemTicker} :
        /\ WorkerUpdates(w, K(w), s) /\ workers[w].usingWebsocket
        /\ StartUsingWebsocket /\ exch.wsAssetSupported
        /\ Find(K(w)) # 0
        /\ InRESTMode(Stream(K(w), s)) /\ Stream(K(w), s).HaveData
        => Stream(K(w), s)'.IsUsingWebsocket /\ ~Stream(K(w), s)'.IsUsingREST
C18_Repromoted == [][C18Step]_vars
\* No step gives a stream of the registry IsUsingWebsocket that did not have it.
C18_NeverPromoted ==
    [][\A i \in 1..Len(Units), s \in StreamKinds :
          Units'[i][StreamField(s)].IsUsingWebsocket
              => Units[i][StreamField(s)].IsUsingWebsocket]_vars

\* C19: with trades enabled, a worker that is at the Orderbook or Ticker stage
\* of a unit whose Trade stream is not processing and is due does not leave
\* the unit in that step: its sweep goes on towards the Trade stage of the
\* unit, whatever the transport mode, grace period or due state of the
\* Orderbook and Ticker streams.
C19Step ==
    \A w \in DOMAIN workers :
        /\ workers[w].pc \in {"ob", "tk"} /\ config.SynchronizeTrades
        /\ Find(K(w)) # 0
        /\ ~isProcessing(K(w), SyncItemTrade)
        /\ TradeDue(Stream(K(w), SyncItemTrade))
        /\ workers'[w] # workers[w]
        => workers'[w].pc \in {"ob_demote", "ob_set", "tk", "tk_demote", "tk_set", "tr"}
C19_TradeEverySweep == [][C19Step]_vars

\* C20: whenever a worker has an external fetch of a Ticker or Orderbook
\* stream in flight (UpdateOrderbook, UpdateTicker, UpdateTickers /
\* FetchTicker), that stream of the unit is in REST mode (IsUsingREST); the
\* rule is the same for both streams.
C20_FetchOnlyInREST ==
    \A w \in DOMAIN workers, s \in {SyncItemOrderbook, SyncItemTicker} :
        Fetching(w, s) => Find(K(w)) # 0 /\ Stream(K(w), s).IsUsingREST
\* The Ticker half of the rule alone.
C20_TickerRule ==
    \A w \in DOMAIN workers :
        Fetching(w, SyncItemTicker)
            => Find(K(w)) # 0 /\ Stream(K(w), SyncItemTicker).IsUsingREST

\* C20, the case it names: a worker has no external fetch in flight for a
\* Ticker or Orderbook stream that is in websocket mode.
C20_NoFetchInWebsocketMode ==
    \A w \in DOMAIN workers, s \in {SyncItemOrderbook, SyncItemTicker} :
        Fetching(w, s) /\ Find(K(w)) # 0 => ~Stream(K(w), s).IsUsingWebsocket

\* C21: after a Stop with no later Start every worker terminates and stays
\* terminated: a worker that loads m.started = 0 at the head of a sweep or
\* before a pair exits there, starting no fetch.
AllExited == \A w \in DOMAIN workers : workers[w].pc = "exited"
C21Step ==
    \A w \in DOMAIN workers :
        /\ workers[w].pc = "exited" => workers'[w].pc = "exited"
        /\ started = 0 /\ workers'[w] # workers[w]
           /\ \/ workers[w].pc = "top"
              \/ workers[w].pc = "pair" /\ workers[w].todo # <<>>
           => workers'[w].pc = "exited"
C21_WorkersTerminate ==
    /\ [][C21Step]_vars
    /\ (started = 0 /\ nStarts = 1 /\ Idle(1)) ~> [](AllExited)
C21_Witness ==
    /\ started = 0 /\ nStarts = 1 /\ inService = 1
    /\ Len(workers) = 2 /\ AllExited
    /\ Len(Units) = 2 /\ Units[1].Ticker.HaveData /\ ~Units[2].Ticker.HaveData

\* C22: initSyncCompleted never goes back from 1 to 0, and once the barrier
\* has closed (initSyncCompleted = 1 with the latch count at zero) no step takes
\* the latch count off zero (steps that panic aside), also after a Stop and
\* another Start, so that m.initSyncWG.Wait() does not block.
C22_NeverReopens == [][initSyncCompleted = 1 => initSyncCompleted' = 1]_vars
C22_LatchStaysClosed ==
    [][initSyncCompleted = 1 /\ initSyncWG = 0 /\ ~panicked' => initSyncWG' = 0]_vars

\* C23: on a started manager with no Start or Stop call in progress, every
\* stream of the registry with IsProcessing = true has a worker between its
\* setProcessing(true) and its Update, also after Start, Stop and Start again.
InFlight(k, s) ==
    \E w \in DOMAIN workers :
        /\ workers[w].c # NoUnit /\ K(w) = k
        /\ \/ s = SyncItemOrderbook /\ workers[w].pc = "ob_fetch"
           \/ s = SyncItemTicker
                /\ workers[w].pc \in {"tk_batch", "tk_batchlock", "tk_batchcall", "tk_fetch"}
           \/ s = SyncItemTrade /\ workers[w].pc = "tr_upd"
C23_NoStuckProcessing ==
    started = 1 /\ (\A t \in Threads : Idle(t))
        => \A i \in 1..Len(Units), s \in StreamKinds :
              Units[i][StreamField(s)].IsProcessing => InFlight(KeyOf(Units[i]), s)

\* C24: the number of worker loops that have not exited never exceeds
\* NumWorkers, after any sequence of Start and Stop calls.
LiveWorkers == {w \in DOMAIN workers : Live(w)}
C24_WorkersBounded == Cardinality(LiveWorkers) <= config.NumWorkers

\* C25: when Start returns the error of GetExchanges, the manager is as it was
\* before the call: it is not running (m.started = 0) and the latch is not
\* armed (the count of initSyncWG is zero).
C25_FailedStartLeavesStopped ==
    ret.op = "Start" /\ ret.res = errExternal => started = 0 /\ initSyncWG = 0

====
